---- MODULE Spec2Model ----
(***************************************************************************)
(* GridMRR layout engines.                                                 *)
(*                                                                         *)
(*   buildTreemap    src/app/page.tsx       column-first rectangle packer  *)
(*   buildPixelGrid  src/unnamed/part_002   largest-remainder pixel grid   *)
(*                                                                         *)
(* Numbers.  The source computes in IEEE doubles.  The grid engine is      *)
(* modelled in exact integer arithmetic (floor and remainder of            *)
(* totalPixels * mrr / totalMRR).  The packer is modelled in exact         *)
(* rational arithmetic, a rational being a normalised pair <<n, d>>, d > 0.*)
(* Math.sqrt is exact on rational squares; the inputs of the packer are    *)
(* drawn from the entity lists whose areas are rational squares, so no     *)
(* operation of the model rounds.                                          *)
(***************************************************************************)
EXTENDS Integers, Sequences, FiniteSets, TLC

VARIABLES
    engine,      \* which page module is loaded: "treemap" or "pixel"
    data,        \* the entity list: buildTreemap's argument (any order), or the
                 \* pixel map's module-level list (sorted by mrr descending)
    pc,          \* position inside the running call
    call,        \* number of the running call (1 or 2) with the same inputs
    \* ---- buildTreemap (src/app/page.tsx) ----
    container,   \* <<containerWidth, containerHeight>>
    items,       \* sorted copy with areas
    columns,     \* Column[]
    nodes,       \* TreemapNode[]
    prevNodes,   \* nodes returned by the previous call
    \* ---- buildPixelGrid (src/unnamed/part_002) ----
    viewport,    \* <<viewportWidth, viewportHeight>>
    cols, rows,
    floorCounts, \* per-entity cell counts after the remainder distribution
    pixels,      \* Uint16Array(totalPixels), as its list of range writes
    metas,       \* CompanyPixelMeta[]
    cursor,
    idx,         \* forEach position, 1-based
    prevGrid,    \* result of the previous call
    \* ---- data-acquisition scripts (src/scripts/scrape-trustmrr.mjs,
    \*      src/unnamed/part_000) ----
    script,      \* the script that runs: "scrape", "fetch" or "none"
    rowsIn,      \* the table rows of rawhtml.txt, or the startups of the API
    step,        \* position inside the script
    loopIndex,   \* position of the running loop, 1-based
    companies,   \* the records collected before deduplication
    byKey,       \* the Map of the deduplication, in insertion order
    written      \* the records written to data/companies.json

vars == <<engine, data, pc, call, container, items, columns, nodes,
          prevNodes, viewport, cols, rows, floorCounts, pixels, metas,
          cursor, idx, prevGrid, script, rowsIn, step, loopIndex, companies,
          byKey, written>>

treemapVars == <<container, items, columns, nodes, prevNodes>>
pixelVars == <<viewport, cols, rows, floorCounts, pixels, metas, cursor,
               idx, prevGrid>>
acquireVars == <<script, rowsIn, step, loopIndex, companies, byKey,
                 written>>

----------------------------------------------------------------------------
(* Bounds of the model *)

MaxEntities == 4
MaxRoot == 5
MaxPixelEntities == 3
MaxMrr == 3
MaxRows == 3

(* magnitudes: 0 and the squares up to MaxRoot^2 *)
MrrValues == {0} \cup {j * j : j \in 1..MaxRoot}

----------------------------------------------------------------------------
(* Integer helpers *)

Max(a, b) == IF a >= b THEN a ELSE b
Min(a, b) == IF a <= b THEN a ELSE b

RECURSIVE GCD(_, _)
GCD(a, b) == IF b = 0 THEN a ELSE GCD(b, a % b)

RECURSIVE SqrtSearch(_, _, _)
SqrtSearch(n, lo, hi) ==
    IF lo >= hi THEN lo
    ELSE LET mid == (lo + hi + 1) \div 2
         IN IF mid * mid <= n THEN SqrtSearch(n, mid, hi)
                              ELSE SqrtSearch(n, lo, mid - 1)

(* Math.floor(Math.sqrt(n)) for an integer n >= 0 *)
ISqrt(n) == SqrtSearch(n, 0, Min(n, 46340))

RECURSIVE SumSeq(_)
SumSeq(s) == IF s = <<>> THEN 0 ELSE Head(s) + SumSeq(Tail(s))

MinOf(S) == CHOOSE x \in S : \A y \in S : x <= y
MaxOf(S) == CHOOSE x \in S : \A y \in S : y <= x

----------------------------------------------------------------------------
(* Exact rationals <<n, d>> with d > 0 and gcd(|n|, d) = 1 *)

Norm(n, d) ==
    LET s == IF d < 0 THEN -1 ELSE 1
        a == IF n < 0 THEN -n ELSE n
        g == GCD(a, s * d)
    IN <<(s * n) \div g, (s * d) \div g>>

QInt(n) == <<n, 1>>

(* sums and comparisons go through the least common denominator, and     *)
(* products cancel crosswise first, to keep the intermediate integers    *)
(* small                                                                 *)
QAdd(a, b) ==
    LET g == GCD(a[2], b[2])
    IN Norm(a[1] * (b[2] \div g) + b[1] * (a[2] \div g),
            (a[2] \div g) * b[2])
QNeg(a) == <<-a[1], a[2]>>
QSub(a, b) == QAdd(a, QNeg(b))
QMul(a, b) ==
    LET g1 == GCD(IF a[1] < 0 THEN -a[1] ELSE a[1], b[2])
        g2 == GCD(IF b[1] < 0 THEN -b[1] ELSE b[1], a[2])
    IN <<(a[1] \div g1) * (b[1] \div g2), (a[2] \div g2) * (b[2] \div g1)>>
QInv(b) == IF b[1] < 0 THEN <<-b[2], -b[1]>> ELSE <<b[2], b[1]>>
QDiv(a, b) == QMul(a, QInv(b))
QLe(a, b) ==
    LET g == GCD(a[2], b[2])
    IN a[1] * (b[2] \div g) <= b[1] * (a[2] \div g)
QLt(a, b) ==
    LET g == GCD(a[2], b[2])
    IN a[1] * (b[2] \div g) < b[1] * (a[2] \div g)
QMax(a, b) == IF QLe(b, a) THEN a ELSE b
QAbs(a) == IF a[1] < 0 THEN <<-a[1], a[2]>> ELSE a

IsSquare(n) == n >= 0 /\ ISqrt(n) * ISqrt(n) = n
IsSquareQ(q) == IsSquare(q[1]) /\ IsSquare(q[2])

(* Math.sqrt, exact on the squares of rationals *)
QSqrt(q) == <<ISqrt(q[1]), ISqrt(q[2])>>

----------------------------------------------------------------------------
(* Entities and Array.prototype.sort((a, b) => b.mrr - a.mrr) *)

(* the entity list whose i-th record has magnitude ms[i]; the name of a  *)
(* record is its position in companies.json                              *)
Entities(ms) == [i \in 1..Len(ms) |-> [name |-> i, mrr |-> ms[i]]]

(* stable sort of the positions 1..n by key, descending *)
StableDesc(key) ==
    LET n == Len(key)
        Before(i, j) == key[i] > key[j] \/ (key[i] = key[j] /\ i < j)
        Rank(i) == Cardinality({j \in 1..n : Before(j, i)}) + 1
    IN [k \in 1..n |-> CHOOSE i \in 1..n : Rank(i) = k]

(* SortDesc that puts the later of two equal magnitudes first *)
SortDesc_TiesReversed(d) ==
    LET n == Len(d)
        Before(i, j) == d[i].mrr > d[j].mrr \/ (d[i].mrr = d[j].mrr /\ i > j)
        Rank(i) == Cardinality({j \in 1..n : Before(j, i)}) + 1
    IN [k \in 1..n |-> d[CHOOSE i \in 1..n : Rank(i) = k]]

SortDesc(d) ==
    LET order == StableDesc([i \in 1..Len(d) |-> d[i].mrr])
    IN [k \in 1..Len(d) |-> d[order[k]]]

IsSortedDesc(ms) == \A i \in 1..(Len(ms) - 1) : ms[i] >= ms[i + 1]

----------------------------------------------------------------------------
(* buildPixelGrid, src/unnamed/part_002 *)

MIN_PIXEL_SIZE == 6
MAX_PIXELS == 9000
headerReserve == 96

(* lines 92-106: cols and rows from the viewport.                         *)
(* Math.floor(cols * Math.sqrt(MAX_PIXELS / totalPixels)) is              *)
(* floor(sqrt(MAX_PIXELS * cols / rows)), and likewise for rows.          *)
GridDims(vw, vh) ==
    LET usableHeight == Max(vh - headerReserve, MIN_PIXEL_SIZE * 4)
        c0 == Max(20, vw \div MIN_PIXEL_SIZE)
        r0 == Max(10, usableHeight \div MIN_PIXEL_SIZE)
    IN IF c0 * r0 > MAX_PIXELS
       THEN <<Max(10, ISqrt((MAX_PIXELS * c0) \div r0)),
              Max(10, ISqrt((MAX_PIXELS * r0) \div c0))>>
       ELSE <<c0, r0>>

(* line 108 *)
PixelTotalMRR(d) ==
    LET s == SumSeq([i \in 1..Len(d) |-> Max(d[i].mrr, 0)])
    IN IF s = 0 THEN 1 ELSE s

(* The divisions of lines 109 and 112 are IEEE 754 double divisions, and  *)
(* the order of the remainders depends on their rounding.  A positive     *)
(* double is [m |-> its 53 significant bits, first bit 1, e |-> exponent], *)
(* of value m * 2^e.  Integers of up to 54 bits are pairs <<hi, lo>> of    *)
(* value hi * Base + lo.                                                   *)
Base == 2^27

BigShl1(x, bit) ==
    <<2 * x[1] + ((2 * x[2] + bit) \div Base), (2 * x[2] + bit) % Base>>
BigGe(a, b) == a[1] > b[1] \/ (a[1] = b[1] /\ a[2] >= b[2])
BigSub(a, b) ==
    IF a[2] >= b[2] THEN <<a[1] - b[1], a[2] - b[2]>>
                    ELSE <<a[1] - b[1] - 1, a[2] + Base - b[2]>>

RECURSIVE BinaryDigits(_)
BinaryDigits(n) ==
    IF n = 0 THEN <<>> ELSE BinaryDigits(n \div 2) \o <<n % 2>>

RECURSIVE BitsValue(_, _)
BitsValue(bits, acc) ==
    IF bits = <<>> THEN acc
    ELSE BitsValue(Tail(bits), 2 * acc + Head(bits))

(* the integer written by at most 54 bits, as <<high, low>> in base 2^27 *)
BigOfBits(bits) ==
    IF Len(bits) <= 27 THEN <<0, BitsValue(bits, 0)>>
    ELSE <<BitsValue(SubSeq(bits, 1, Len(bits) - 27), 0),
           BitsValue(SubSeq(bits, Len(bits) - 26, Len(bits)), 0)>>

(* long division of (bits + r / D) in binary, up to target significant    *)
(* bits: the remainder left, the bits, and s counting the bits produced    *)
(* after the binary point                                                  *)
RECURSIVE DivBits(_, _, _, _, _)
DivBits(r, D, bits, s, target) ==
    IF Len(bits) >= target
    THEN [r |-> r, bits |-> bits, s |-> s]
    ELSE IF BigGe(BigShl1(r, 0), D)
         THEN DivBits(BigSub(BigShl1(r, 0), D), D, Append(bits, 1), s + 1,
                      target)
         ELSE DivBits(BigShl1(r, 0), D,
                      IF bits = <<>> THEN bits ELSE Append(bits, 0), s + 1,
                      target)

DivTo(h, D, target) == DivBits(h.r, D, h.bits, h.s, target)

WithSticky(h) == [bits |-> h.bits, s |-> h.s, sticky |-> h.r # <<0, 0>>]

(* the first 54 significant bits of (bits + r / D) and whether a           *)
(* remainder is left                                                       *)
Quotient54(r, D, bits) ==
    WithSticky(DivTo(DivTo(DivTo(DivTo(DivTo(DivTo(
        [r |-> r, bits |-> bits, s |-> 0], D, 9), D, 18), D, 27), D, 36),
        D, 45), D, 54))

RECURSIVE IncBits(_)
IncBits(m) ==
    IF m = <<>> THEN <<1>>
    ELSE IF m[Len(m)] = 0 THEN SubSeq(m, 1, Len(m) - 1) \o <<1>>
    ELSE IncBits(SubSeq(m, 1, Len(m) - 1)) \o <<0>>

(* round to nearest, ties to even: 54 bits and a sticky flag to a double *)
Round53(q) ==
    IF q.bits[54] = 1 /\ (q.sticky \/ q.bits[53] = 1)
    THEN [m |-> SubSeq(IncBits(SubSeq(q.bits, 1, 53)), 1, 53),
          e |-> IF \A k \in 1..53 : q.bits[k] = 1 THEN 2 - q.s
                                                  ELSE 1 - q.s]
    ELSE [m |-> SubSeq(q.bits, 1, 53), e |-> 1 - q.s]

(* n / D for integers 0 < n and 0 < D < Base *)
DoubleOfRatio(n, D) ==
    Round53(Quotient54(<<0, n % D>>, <<0, D>>, BinaryDigits(n \div D)))

(* n / x for an integer 0 < n < Base and a double x >= 1: n is shifted    *)
(* left to 52 bits before the division, which the exponent takes back     *)
ShiftedTo52(n) ==
    BigOfBits(BinaryDigits(n) \o [k \in 1..(52 - Len(BinaryDigits(n))) |-> 0])

IntOverDouble(n, x) ==
    [Round53(Quotient54(ShiftedTo52(n), BigOfBits(x.m), <<>>))
        EXCEPT !.e = @ - x.e - (52 - Len(BinaryDigits(n)))]

(* Math.floor(v) and the bits of v - Math.floor(v) after the binary point, *)
(* for a double 0 < v < 2^52                                               *)
FloorAndFraction(v) ==
    IF -v.e >= 53
    THEN [floor |-> 0, frac |-> [k \in 1..(-v.e - 53) |-> 0] \o v.m]
    ELSE [floor |-> BitsValue(SubSeq(v.m, 1, 53 + v.e), 0),
          frac |-> SubSeq(v.m, 54 + v.e, 53)]

(* a < b for two fractions given by their bits after the binary point *)
RECURSIVE FracLt(_, _)
FracLt(a, b) ==
    IF b = <<>> THEN FALSE
    ELSE IF a = <<>> THEN \E k \in 1..Len(b) : b[k] = 1
    ELSE IF Head(a) # Head(b) THEN Head(a) < Head(b)
    ELSE FracLt(Tail(a), Tail(b))

(* lines 109-113, 117: floorCounts[i] and the remainder r of each entity   *)
(* before the distribution                                                 *)
RawCounts(d, totalPixels) ==
    [i \in 1..Len(d) |->
        IF Max(0, d[i].mrr) = 0
        THEN [floor |-> 0, frac |-> <<>>]
        ELSE FloorAndFraction(
                 IntOverDouble(Max(0, d[i].mrr),
                               DoubleOfRatio(PixelTotalMRR(d),
                                             totalPixels)))]

(* the number of remainders smaller than the i-th: a key that orders the   *)
(* entities as b.r - a.r does                                              *)
RemainderKey(raw) ==
    [i \in 1..Len(raw) |->
        Cardinality({j \in 1..Len(raw) : FracLt(raw[j].frac, raw[i].frac)})]

(* lines 114-122: one more cell for the first entities of the order, as    *)
(* far as cells remain                                                     *)
Distribute(raw, order, totalPixels) ==
    [i \in 1..Len(raw) |->
        IF \E k \in 1..Len(raw) :
               /\ order[k] = i
               /\ k <= totalPixels - SumSeq([j \in 1..Len(raw) |->
                                                raw[j].floor])
        THEN raw[i].floor + 1
        ELSE raw[i].floor]

(* ApportionCounts that stops at the floors and hands out no remainder    *)
(* cell                                                                   *)
ApportionCounts_FloorsOnly(d, totalPixels) ==
    CHOOSE c \in {[i \in 1..Len(d) |-> raw[i].floor] :
                     raw \in {RawCounts(d, totalPixels)}} : TRUE

(* ApportionCounts with the remainder cells handed out from the smallest  *)
(* fractional remainder upwards                                           *)
ApportionCounts_SmallestFirst(d, totalPixels) ==
    CHOOSE c \in UNION {{Distribute(raw, order, totalPixels) :
                            order \in {StableDesc([i \in 1..Len(d) |->
                                           -RemainderKey(raw)[i]])}} :
                        raw \in {RawCounts(d, totalPixels)}} : TRUE

(* lines 109-122: floor of the raw counts, then one more cell for the      *)
(* entities with the largest remainders, in the order of the stable sort.  *)
(* The raw counts and the order are computed once and then used as values. *)
ApportionCounts(d, totalPixels) ==
    CHOOSE c \in UNION {{Distribute(raw, order, totalPixels) :
                            order \in {StableDesc(RemainderKey(raw))}} :
                        raw \in {RawCounts(d, totalPixels)}} : TRUE

(* The Uint16Array is held as the list of the range writes made to it,    *)
(* oldest first: [from, to, value] sets the cells from <= p < to.  The     *)
(* first write is the zero fill of the constructor (line 124).             *)
NewPixels(totalPixels) == <<[from |-> 0, to |-> totalPixels, value |-> 0]>>

WriteRange(px, from, to, value) ==
    IF from < to THEN Append(px, [from |-> from, to |-> to, value |-> value])
                 ELSE px

(* pixels[p]: the value of the last write that covers cell p *)
PixelAt(px, p) ==
    LET hits == {w \in 1..Len(px) : px[w].from <= p /\ p < px[w].to}
    IN px[CHOOSE w \in hits : \A v \in hits : v <= w].value

(* AssignRun without the early return of line 130: a run is pushed for    *)
(* every entity, whatever its count                                       *)
AssignRun_NoSkip(g, d, i, totalPixels) ==
    LET count == g.counts[i]
        start == g.cursor
        end == Min(totalPixels, start + count)
    IN [g EXCEPT
          !.pixels = WriteRange(g.pixels, start, end, i - 1),
          !.metas = Append(g.metas,
                           [index |-> i - 1, name |-> d[i].name,
                            mrr |-> d[i].mrr, start |-> start,
                            count |-> end - start]),
          !.cursor = end]

(* lines 129-146: one iteration of data.forEach; g is the loop state *)
AssignRun(g, d, i, totalPixels) ==
    LET count == g.counts[i]
        start == g.cursor
        end == Min(totalPixels, start + count)
    IN IF count <= 0 THEN g
       ELSE [g EXCEPT
               !.pixels = WriteRange(g.pixels, start, end, i - 1),
               !.metas = Append(g.metas,
                                [index |-> i - 1, name |-> d[i].name,
                                 mrr |-> d[i].mrr, start |-> start,
                                 count |-> end - start]),
               !.cursor = end]

(* FillTrailing with the trailing cells left as they are *)
FillTrailing_Skip(g, totalPixels) == g

(* FillTrailing that opens a run for entity 0 instead of extending the   *)
(* last run, whether or not a run exists                                 *)
FillTrailing_NewRun(g, totalPixels) ==
    IF g.cursor < totalPixels
    THEN [g EXCEPT
            !.pixels = WriteRange(g.pixels, g.cursor, totalPixels, 0),
            !.metas = Append(g.metas,
                             [index |-> 0, name |-> 0, mrr |-> 0,
                              start |-> g.cursor,
                              count |-> totalPixels - g.cursor])]
    ELSE g

(* lines 150-156: trailing cells go to the last run *)
FillTrailing(g, totalPixels) ==
    IF g.cursor < totalPixels /\ Len(g.metas) > 0
    THEN LET last == g.metas[Len(g.metas)]
         IN [g EXCEPT
               !.pixels = WriteRange(g.pixels, g.cursor, totalPixels,
                                     last.index),
               !.metas[Len(g.metas)].count =
                   last.count + (totalPixels - g.cursor)]
    ELSE g

(* part_002 lines 184-187: companyMetaByIndex has a key for every index    *)
(* of companies[]; a later run of the same index replaces an earlier one   *)
HasMeta(ms, index) == \E k \in 1..Len(ms) : ms[k].index = index

companyMetaByIndex(ms, index) ==
    ms[CHOOSE k \in 1..Len(ms) :
          /\ ms[k].index = index
          /\ \A l \in 1..Len(ms) : ms[l].index = index => l <= k]

----------------------------------------------------------------------------
(* buildTreemap, src/app/page.tsx *)

areaScale == <<3, 4>>
minAreaShare == <<1, 1000>>
minWidthShare == <<3, 100>>
minHeightShare == <<25, 1000>>
maxAspectRatio == <<9, 10>>
gap == <<1, 2>>
toleranceShare == <<1, 5>>
columnGapTrim == <<3, 10>>

(* line 107 *)
TotalMRR(d) ==
    LET s == SumSeq([i \in 1..Len(d) |-> d[i].mrr])
    IN IF s = 0 THEN 1 ELSE s

(* ItemArea without the minArea floor *)
ItemArea_NoFloor(mrr, totalMRR, W, H) ==
    QMul(QMul(Norm(mrr, totalMRR), QInt(W * H)), areaScale)

(* lines 112, 118-120: the target area of one entity *)
ItemArea(mrr, totalMRR, W, H) ==
    LET whole == QInt(W * H)
        proportionalArea == QMul(QMul(Norm(mrr, totalMRR), whole), areaScale)
        minArea == QMul(whole, minAreaShare)
    IN QMax(proportionalArea, minArea)

(* BuildItems that takes the area of the k-th sorted record from the     *)
(* k-th record of the unsorted input                                     *)
BuildItems_AreaOfInput(d, W, H) ==
    LET sorted == SortDesc(d)
        totalMRR == TotalMRR(d)
    IN [k \in 1..Len(d) |->
          [name |-> sorted[k].name, mrr |-> sorted[k].mrr,
           area |-> ItemArea(d[k].mrr, totalMRR, W, H)]]

(* BuildItems that filters the zero-magnitude records out *)
BuildItems_DropZero(d, W, H) ==
    LET sorted == SelectSeq(SortDesc(d), LAMBDA e : e.mrr > 0)
        totalMRR == TotalMRR(d)
    IN [k \in 1..Len(sorted) |->
          [name |-> sorted[k].name, mrr |-> sorted[k].mrr,
           area |-> ItemArea(sorted[k].mrr, totalMRR, W, H)]]

(* lines 114-122: sorted copy, each record with its area *)
BuildItems(d, W, H) ==
    LET sorted == SortDesc(d)
        totalMRR == TotalMRR(d)
    IN [k \in 1..Len(d) |->
          [name |-> sorted[k].name, mrr |-> sorted[k].mrr,
           area |-> ItemArea(sorted[k].mrr, totalMRR, W, H)]]

(* lines 176-180: a height whose width is more than maxAspectRatio of it  *)
(* is raised to w / maxAspectRatio                                        *)
AspectCorrected(w, itemHeight) ==
    IF QLt(maxAspectRatio, QDiv(w, itemHeight))
    THEN QDiv(w, maxAspectRatio)
    ELSE itemHeight

(* HeightInColumn without the aspect-ratio correction *)
HeightInColumn_NoAspect(itemArea, w, minHeight) ==
    QMax(QDiv(itemArea, w), minHeight)

(* lines 172-180, 193-200, 234-238, 254-259: the height of an item in a   *)
(* column of width w, raised to minHeight and to w / maxAspectRatio       *)
HeightInColumn(itemArea, w, minHeight) ==
    AspectCorrected(w, QMax(QDiv(itemArea, w), minHeight))

(* lines 182-185, 202-203: does the item fit under the column's cursor *)
FitsVertically(col, itemHeight, H) ==
    LET neededHeight == QAdd(itemHeight,
                             IF QLt(QInt(0), col.currentY) THEN gap
                                                           ELSE QInt(0))
    IN QLe(QAdd(col.currentY, neededHeight), QInt(H))

(* lines 152-162: ideal width of the item *)
IdealWidth(itemArea, minWidth, minHeight) ==
    LET idealSquareSize == QSqrt(itemArea)
        idealHeight == QMax(idealSquareSize, minHeight)
        idealWidth == QMax(QDiv(itemArea, idealHeight), minWidth)
    IN IF QLt(maxAspectRatio, QDiv(idealWidth, idealHeight))
       THEN QMax(QDiv(itemArea, QDiv(idealWidth, maxAspectRatio)), minWidth)
       ELSE idealWidth

(* lines 210-217: width of a column opened for the item *)
IdealWidthForNewCol(itemArea, minWidth, minHeight) ==
    LET idealHeightForNewCol == QMax(QSqrt(itemArea), minHeight)
        w == QMax(QDiv(itemArea, idealHeightForNewCol), minWidth)
    IN IF QLt(maxAspectRatio, QDiv(w, idealHeightForNewCol))
       THEN QMul(idealHeightForNewCol, maxAspectRatio)
       ELSE w

(* NewX that forgets the width of the last column *)
NewX_NoWidth(cs) ==
    IF Len(cs) > 0
    THEN QSub(QAdd(cs[Len(cs)].x, gap), columnGapTrim)
    ELSE QInt(0)

(* lines 219-221 *)
NewX(cs) ==
    IF Len(cs) > 0
    THEN QSub(QAdd(QAdd(cs[Len(cs)].x, cs[Len(cs)].width), gap),
              columnGapTrim)
    ELSE QInt(0)

(* SelectColumn that takes the last column of a pass, not the first *)
SelectColumn_LastFit(itemArea, cs, W, H, minWidth, minHeight, idealWidth, newX, ideal) ==
    LET widthTolerance == QMul(idealWidth, toleranceShare)
        Room(k) == FitsVertically(cs[k],
                       HeightInColumn(itemArea, cs[k].width, minHeight), H)
        matching == {k \in 1..Len(cs) :
                        /\ QLe(QAbs(QSub(cs[k].width, idealWidth)),
                               widthTolerance)
                        /\ Room(k)}
        roomy == {k \in 1..Len(cs) : Room(k)}
        Existing(k, path) ==
            [columns |-> cs, k |-> k, itemWidth |-> cs[k].width,
             itemHeight |-> HeightInColumn(itemArea, cs[k].width, minHeight),
             path |-> path]
        exceeds == QLt(QInt(W), QAdd(newX, ideal))
        remainingWidth == QSub(QInt(W), newX)
        Created(columnWidth, path) ==
            [columns |-> Append(cs, [x |-> newX, width |-> columnWidth,
                                     currentY |-> QInt(0),
                                     index |-> Len(cs)]),
             k |-> Len(cs) + 1, itemWidth |-> columnWidth,
             itemHeight |-> HeightInColumn(itemArea, columnWidth, minHeight),
             path |-> path]
    IN IF matching # {} THEN Existing(MaxOf(matching), "match")
       ELSE IF roomy # {} THEN Existing(MaxOf(roomy), "fallback")
       ELSE IF ~exceeds THEN Created(ideal, "new")
       ELSE IF QLe(minWidth, remainingWidth)
            THEN Created(remainingWidth, "clip")
       ELSE IF Len(cs) > 0 THEN Existing(Len(cs), "last")
       ELSE Created(minWidth, "minw")

(* SelectColumn that opens every new column at its ideal width, whatever *)
(* width is left                                                        *)
SelectColumn_NoClip(itemArea, cs, W, H, minWidth, minHeight, idealWidth, newX, ideal) ==
    LET widthTolerance == QMul(idealWidth, toleranceShare)
        Room(k) == FitsVertically(cs[k],
                       HeightInColumn(itemArea, cs[k].width, minHeight), H)
        matching == {k \in 1..Len(cs) :
                        /\ QLe(QAbs(QSub(cs[k].width, idealWidth)),
                               widthTolerance)
                        /\ Room(k)}
        roomy == {k \in 1..Len(cs) : Room(k)}
        Existing(k, path) ==
            [columns |-> cs, k |-> k, itemWidth |-> cs[k].width,
             itemHeight |-> HeightInColumn(itemArea, cs[k].width, minHeight),
             path |-> path]
        exceeds == QLt(QInt(W), QAdd(newX, ideal))
        remainingWidth == QSub(QInt(W), newX)
        Created(columnWidth, path) ==
            [columns |-> Append(cs, [x |-> newX, width |-> columnWidth,
                                     currentY |-> QInt(0),
                                     index |-> Len(cs)]),
             k |-> Len(cs) + 1, itemWidth |-> columnWidth,
             itemHeight |-> HeightInColumn(itemArea, columnWidth, minHeight),
             path |-> path]
    IN IF matching # {} THEN Existing(MinOf(matching), "match")
       ELSE IF roomy # {} THEN Existing(MinOf(roomy), "fallback")
       ELSE Created(ideal, "new")

(* lines 164-261: the choice of the column, given the widths and the     *)
(* x position computed at lines 127-128, 152-162 and 210-221.  The result *)
(* names the column list after the call, the position k of the chosen     *)
(* column in it, the item's width and height, and the path taken          *)
(* ("match", "fallback", "new", "clip", "last", "minw").                  *)
SelectColumn(itemArea, cs, W, H, minWidth, minHeight, idealWidth, newX, ideal) ==
    LET widthTolerance == QMul(idealWidth, toleranceShare)
        Room(k) == FitsVertically(cs[k],
                       HeightInColumn(itemArea, cs[k].width, minHeight), H)
        matching == {k \in 1..Len(cs) :
                        /\ QLe(QAbs(QSub(cs[k].width, idealWidth)),
                               widthTolerance)
                        /\ Room(k)}
        roomy == {k \in 1..Len(cs) : Room(k)}
        Existing(k, path) ==
            [columns |-> cs, k |-> k, itemWidth |-> cs[k].width,
             itemHeight |-> HeightInColumn(itemArea, cs[k].width, minHeight),
             path |-> path]
        exceeds == QLt(QInt(W), QAdd(newX, ideal))
        remainingWidth == QSub(QInt(W), newX)
        Created(columnWidth, path) ==
            [columns |-> Append(cs, [x |-> newX, width |-> columnWidth,
                                     currentY |-> QInt(0),
                                     index |-> Len(cs)]),
             k |-> Len(cs) + 1, itemWidth |-> columnWidth,
             itemHeight |-> HeightInColumn(itemArea, columnWidth, minHeight),
             path |-> path]
    IN IF matching # {} THEN Existing(MinOf(matching), "match")
       ELSE IF roomy # {} THEN Existing(MinOf(roomy), "fallback")
       ELSE IF ~exceeds THEN Created(ideal, "new")
       ELSE IF QLe(minWidth, remainingWidth)
            THEN Created(remainingWidth, "clip")
       ELSE IF Len(cs) > 0 THEN Existing(Len(cs), "last")
       ELSE Created(minWidth, "minw")

(* lines 149-262 *)
FindOrCreateColumn(itemArea, cs, W, H) ==
    LET minWidth == QMul(QInt(W), minWidthShare)
        minHeight == QMul(QInt(H), minHeightShare)
    IN SelectColumn(itemArea, cs, W, H, minWidth, minHeight,
                    IdealWidth(itemArea, minWidth, minHeight),
                    NewX(cs),
                    IdealWidthForNewCol(itemArea, minWidth, minHeight))

(* TreemapLocals with the column list kept from the call before *)
TreemapLocals_SharedColumns(d, W, H) ==
    [data |-> d, items |-> BuildItems(d, W, H), columns |-> columns,
     nodes |-> <<>>]

(* TreemapLocals that sorts the caller's array instead of a copy of it *)
TreemapLocals_SortInPlace(d, W, H) ==
    [data |-> SortDesc(d), items |-> BuildItems(d, W, H), columns |-> <<>>,
     nodes |-> <<>>]

(* lines 114-145: the locals of a call before the placement loop, and the *)
(* caller's array, which [...data] leaves as it was                       *)
TreemapLocals(d, W, H) ==
    [data |-> d, items |-> BuildItems(d, W, H), columns |-> <<>>,
     nodes |-> <<>>]

(* lines 267-282: the node of the item and the column's new cursor, f     *)
(* being the result of findOrCreateColumn                                 *)
EmitNode(f, item, ns, W, H) ==
    LET col == f.columns[f.k]
        yOffset == IF QLt(QInt(0), col.currentY) THEN gap ELSE QInt(0)
        node == [name |-> item.name, mrr |-> item.mrr, area |-> item.area,
                 x |-> QMul(QDiv(col.x, QInt(W)), QInt(100)),
                 y |-> QMul(QDiv(QAdd(col.currentY, yOffset), QInt(H)),
                            QInt(100)),
                 width |-> QMul(QDiv(f.itemWidth, QInt(W)), QInt(100)),
                 height |-> QMul(QDiv(f.itemHeight, QInt(H)), QInt(100)),
                 columnIndex |-> col.index,
                 path |-> f.path]
    IN [columns |-> [f.columns EXCEPT ![f.k].currentY =
                        QAdd(col.currentY, QAdd(f.itemHeight, yOffset))],
        nodes |-> Append(ns, node)]

(* lines 265-283: one iteration of the placement loop *)
PlaceOne(item, cs, ns, W, H) ==
    EmitNode(FindOrCreateColumn(item.area, cs, W, H), item, ns, W, H)

(* every Math.sqrt of the call is taken of a rational square *)
ExactInput(ms, W, H) ==
    \A i \in 1..Len(ms) :
        IsSquareQ(ItemArea(ms[i], TotalMRR(Entities(ms)), W, H))

----------------------------------------------------------------------------
(* Inputs *)

(* magnitude lists of at most MaxEntities entities *)
MrrLists == UNION {[1..n -> MrrValues] : n \in 0..MaxEntities}

(* a list of seven entities in which a column first passed over for its   *)
(* width is reused by a smaller entity                                    *)
SkewedList == <<2116, 2025, 1444, 1369, 361, 169, 16>>

(* two lists of five entities in which an entity has two columns to choose *)
(* from: both pass the width test in the first, both have room in the      *)
(* second                                                                  *)
CrowdedLists == {<<2209, 2209, 1849, 1089, 144>>, <<2209, 2209, 2209, 729, 144>>}

(* a list of five entities whose last one, in a 40 x 25 container, finds   *)
(* no room in three full columns and 1.15 units left of them               *)
NarrowGapList == <<5625, 2500, 2025, 1849, 1>>

(* <<containerWidth, containerHeight>>; the page calls with <<100, 100>> *)
Containers == {<<100, 100>>, <<40, 25>>, <<25, 40>>, <<30, 40>>}

(* magnitudes of the pixel map: the small ones and one that dwarfs them *)
PixelMrrValues == (0..MaxMrr) \cup {1000}

(* magnitude lists of the pixel map, at most MaxPixelEntities entities *)
PixelLists == UNION {[1..n -> PixelMrrValues] : n \in 0..MaxPixelEntities}

(* <<window.innerWidth, window.innerHeight>> *)
Viewports == {<<0, 0>>, <<126, 162>>, <<1280, 720>>, <<6000, 162>>}

NoGrid == [cols |-> 0, rows |-> 0, pixels |-> <<>>, metas |-> <<>>]

TreemapIdle ==
    /\ container = <<0, 0>>
    /\ items = <<>>
    /\ columns = <<>>
    /\ nodes = <<>>
    /\ prevNodes = <<>>

PixelIdle ==
    /\ viewport = <<0, 0>>
    /\ cols = 0
    /\ rows = 0
    /\ floorCounts = <<>>
    /\ pixels = <<>>
    /\ metas = <<>>
    /\ cursor = 0
    /\ idx = 0
    /\ prevGrid = NoGrid

AcquireIdle ==
    /\ script = "none"
    /\ rowsIn = <<>>
    /\ step = "none"
    /\ loopIndex = 0
    /\ companies = <<>>
    /\ byKey = <<>>
    /\ written = <<>>

(* page.tsx: buildTreemap is about to be called with an entity list and   *)
(* a container                                                            *)
InitTreemap ==
    /\ engine = "treemap"
    /\ \E c \in Containers, ms \in MrrLists \cup {SkewedList, NarrowGapList} \cup CrowdedLists :
          /\ ExactInput(ms, c[1], c[2])
          /\ container = c
          /\ data = Entities(ms)
    /\ items = <<>>
    /\ columns = <<>>
    /\ nodes = <<>>
    /\ prevNodes = <<>>
    /\ PixelIdle

(* part_002 line 83: the module-level list is sorted when the page loads *)
InitPixel ==
    /\ engine = "pixel"
    /\ \E v \in Viewports, ms \in PixelLists :
          /\ IsSortedDesc(ms)
          /\ viewport = v
          /\ data = SortDesc(Entities(ms))
    /\ cols = 0
    /\ rows = 0
    /\ floorCounts = <<>>
    /\ pixels = <<>>
    /\ metas = <<>>
    /\ cursor = 0
    /\ idx = 0
    /\ prevGrid = NoGrid
    /\ TreemapIdle

Init ==
    /\ pc = "start"
    /\ call = 1
    /\ (InitTreemap \/ InitPixel)
    /\ AcquireIdle

----------------------------------------------------------------------------
(* Actions of buildTreemap *)

(* lines 106-145 *)
TreemapStart ==
    /\ engine = "treemap"
    /\ pc = "start"
    /\ \E l \in {TreemapLocals(data, container[1], container[2])} :
          /\ data' = l.data
          /\ items' = l.items
          /\ columns' = l.columns
          /\ nodes' = l.nodes
    /\ pc' = "place"
    /\ UNCHANGED acquireVars
    /\ UNCHANGED <<engine, call, container, prevNodes, pixelVars>>

(* lines 265-283, one item *)
PlaceItem ==
    /\ engine = "treemap"
    /\ pc = "place"
    /\ Len(nodes) < Len(items)
    /\ \E r \in {PlaceOne(items[Len(nodes) + 1], columns, nodes,
                          container[1], container[2])} :
          /\ columns' = r.columns
          /\ nodes' = r.nodes
    /\ UNCHANGED acquireVars
    /\ UNCHANGED <<engine, data, pc, call, container, items, prevNodes,
                   pixelVars>>

(* line 285 *)
TreemapReturn ==
    /\ engine = "treemap"
    /\ pc = "place"
    /\ Len(nodes) = Len(items)
    /\ pc' = "done"
    /\ UNCHANGED acquireVars
    /\ UNCHANGED <<engine, data, call, treemapVars, pixelVars>>

(* the module is evaluated again with the same list and container *)
TreemapAgain ==
    /\ engine = "treemap"
    /\ pc = "done"
    /\ call = 1
    /\ prevNodes' = nodes
    /\ call' = 2
    /\ pc' = "start"
    /\ UNCHANGED acquireVars
    /\ UNCHANGED <<engine, data, container, items, columns, nodes, pixelVars>>

----------------------------------------------------------------------------
(* Actions of buildPixelGrid *)

(* lines 89-127 *)
PixelStart ==
    /\ engine = "pixel"
    /\ pc = "start"
    /\ LET dims == GridDims(viewport[1], viewport[2])
           totalPixels == dims[1] * dims[2]
       IN /\ cols' = dims[1]
          /\ rows' = dims[2]
          /\ floorCounts' = ApportionCounts(data, totalPixels)
          /\ pixels' = NewPixels(totalPixels)
    /\ metas' = <<>>
    /\ cursor' = 0
    /\ idx' = 1
    /\ pc' = "assign"
    /\ UNCHANGED acquireVars
    /\ UNCHANGED <<engine, data, call, viewport, prevGrid, treemapVars>>

(* lines 128-147, one entity *)
PixelAssign ==
    /\ engine = "pixel"
    /\ pc = "assign"
    /\ idx <= Len(data)
    /\ LET g == AssignRun([pixels |-> pixels, metas |-> metas,
                           cursor |-> cursor, counts |-> floorCounts],
                          data, idx, cols * rows)
       IN /\ pixels' = g.pixels
          /\ metas' = g.metas
          /\ cursor' = g.cursor
    /\ idx' = idx + 1
    /\ UNCHANGED acquireVars
    /\ UNCHANGED <<engine, data, pc, call, viewport, cols, rows,
                   floorCounts, prevGrid, treemapVars>>

(* lines 149-158 *)
PixelReturn ==
    /\ engine = "pixel"
    /\ pc = "assign"
    /\ idx > Len(data)
    /\ LET g == FillTrailing([pixels |-> pixels, metas |-> metas,
                              cursor |-> cursor, counts |-> floorCounts],
                             cols * rows)
       IN /\ pixels' = g.pixels
          /\ metas' = g.metas
    /\ pc' = "done"
    /\ UNCHANGED acquireVars
    /\ UNCHANGED <<engine, data, call, viewport, cols, rows, floorCounts,
                   cursor, idx, prevGrid, treemapVars>>

(* part_002 lines 165-176: a resize event to the same size recomputes *)
PixelAgain ==
    /\ engine = "pixel"
    /\ pc = "done"
    /\ call = 1
    /\ prevGrid' = [cols |-> cols, rows |-> rows, pixels |-> pixels,
                    metas |-> metas]
    /\ call' = 2
    /\ pc' = "start"
    /\ UNCHANGED acquireVars
    /\ UNCHANGED <<engine, data, viewport, cols, rows, floorCounts, pixels,
                   metas, cursor, idx, treemapVars>>

Next ==
    \/ TreemapStart
    \/ PlaceItem
    \/ TreemapReturn
    \/ TreemapAgain
    \/ PixelStart
    \/ PixelAssign
    \/ PixelReturn
    \/ PixelAgain

Spec == Init /\ [][Next]_vars

----------------------------------------------------------------------------
(* The data-acquisition scripts: src/scripts/scrape-trustmrr.mjs and       *)
(* src/unnamed/part_000.  Texts are sequences of characters.               *)

(* the null of parseMoneyToNumber, and a missing currentMrr *)
Null == -1

DigitChars == <<"0", "1", "2", "3", "4", "5", "6", "7", "8", "9">>
IsDigit(c) == \E k \in 1..10 : DigitChars[k] = c
DigitValue(c) == (CHOOSE k \in 1..10 : DigitChars[k] = c) - 1

RECURSIVE ParseDigits(_, _)
ParseDigits(t, acc) ==
    IF t = <<>> THEN acc
    ELSE ParseDigits(Tail(t), 10 * acc + DigitValue(Head(t)))

(* scrape-trustmrr.mjs lines 35-41, on texts without a decimal point:      *)
(* everything but the digits is removed, no digit left gives null          *)
parseMoneyToNumber(value) ==
    LET cleaned == SelectSeq(value, IsDigit)
    IN IF cleaned = <<>> THEN Null ELSE ParseDigits(cleaned, 0)

(* String.prototype.trim *)
RECURSIVE TrimStart(_)
TrimStart(t) ==
    IF t # <<>> /\ Head(t) = " " THEN TrimStart(Tail(t)) ELSE t

RECURSIVE TrimEnd(_)
TrimEnd(t) ==
    IF t # <<>> /\ t[Len(t)] = " " THEN TrimEnd(SubSeq(t, 1, Len(t) - 1))
                                  ELSE t

Trim(t) == TrimEnd(TrimStart(t))

(* the decimal text of a number in a template literal *)
RECURSIVE NumberToString(_)
NumberToString(n) ==
    IF n < 10 THEN <<DigitChars[n + 1]>>
    ELSE NumberToString(n \div 10) \o <<DigitChars[(n % 10) + 1]>>

(* `${company.name}::${company.mrr}` *)
KeyOf(company) ==
    company.name \o <<":", ":">> \o NumberToString(company.mrr)

(* Map.prototype.has on the entries in insertion order *)
MapHas(m, key) == \E k \in 1..Len(m) : m[k].key = key

(* DedupeOne that sets the key on every record, so that the last one wins *)
DedupeOne_LastWins(m, company) ==
    IF MapHas(m, KeyOf(company))
    THEN [k \in 1..Len(m) |->
             IF m[k].key = KeyOf(company)
             THEN [key |-> m[k].key, value |-> company]
             ELSE m[k]]
    ELSE Append(m, [key |-> KeyOf(company), value |-> company])

(* scrape-trustmrr.mjs lines 160-165, part_000 lines 119-124 *)
DedupeOne(m, company) ==
    IF MapHas(m, KeyOf(company))
    THEN m
    ELSE Append(m, [key |-> KeyOf(company), value |-> company])

(* Array.from(byKey.values()) *)
MapValues(m) == [k \in 1..Len(m) |-> m[k].value]

(* scrape-trustmrr.mjs lines 101-147: the records after one more table    *)
(* row, which is skipped when it has no name or no MRR                    *)
PushRow(cs, row) ==
    LET name == Trim(row.name)
        mrr == parseMoneyToNumber(row.mrrText)
    IN IF name = <<>> \/ mrr = Null
       THEN cs
       ELSE Append(cs, [name |-> name, mrr |-> mrr, link |-> row.href])

(* part_000 lines 78-86 *)
transformStartup(startup) ==
    [name |-> startup.name,
     mrr |-> IF startup.currentMrr = Null \/ startup.currentMrr = 0
             THEN 0 ELSE startup.currentMrr,
     link |-> startup.slug]

(* part_000 lines 110-115: map, filter, sort *)
FetchCompanies(startups) ==
    SortDesc(SelectSeq([k \in 1..Len(startups) |->
                           transformStartup(startups[k])],
                       LAMBDA c : c.name # <<>> /\ c.mrr > 0))

(* <<name cell, MRR cell>> of a table row: a blank name, an MRR without a *)
(* digit, a plain row, the same name and amount written with a trailing   *)
(* blank and a dollar sign, the same name with another amount, and a name  *)
(* that holds the separator of the key                                     *)
ScrapeCells ==
    {<<<<" ">>, <<"$", "1">>>>,
     <<<<"a">>, <<"-">>>>,
     <<<<"a">>, <<"1">>>>,
     <<<<"a", " ">>, <<"$", "1">>>>,
     <<<<"a">>, <<"$", "2">>>>,
     <<<<"a", ":", ":", "1">>, <<"1">>>>}

(* at most MaxRows table rows, the href of a row being its position *)
ScrapeInputs ==
    UNION {{[k \in 1..n |-> [name |-> f[k][1], mrrText |-> f[k][2],
                             href |-> k]] :
               f \in [1..n -> ScrapeCells]} : n \in 0..MaxRows}

(* <<name, currentMrr>> of a startup of the API: a missing name, a missing *)
(* and a zero currentMrr, a plain startup, the same name with another      *)
(* amount, and a name that holds the separator of the key                  *)
FetchFields ==
    {<<<<>>, 1>>,
     <<<<"a">>, Null>>,
     <<<<"a">>, 0>>,
     <<<<"a">>, 1>>,
     <<<<"a">>, 2>>,
     <<<<"a", ":", ":", "1">>, 1>>}

(* at most MaxRows startups, the slug of a startup being its position *)
FetchInputs ==
    UNION {{[k \in 1..n |-> [name |-> f[k][1], currentMrr |-> f[k][2],
                             slug |-> k]] :
               f \in [1..n -> FetchFields]} : n \in 0..MaxRows}

LayoutIdle ==
    /\ engine = "none"
    /\ data = <<>>
    /\ pc = "none"
    /\ call = 0
    /\ TreemapIdle
    /\ PixelIdle

(* a script is started on its input *)
AcquireInit ==
    /\ LayoutIdle
    /\ \/ script = "scrape" /\ rowsIn \in ScrapeInputs /\ step = "rows"
       \/ script = "fetch" /\ rowsIn \in FetchInputs /\ step = "start"
    /\ loopIndex = 1
    /\ companies = <<>>
    /\ byKey = <<>>
    /\ written = <<>>

(* scrape-trustmrr.mjs lines 83-155, one row *)
ScrapeRow ==
    /\ script = "scrape"
    /\ step = "rows"
    /\ loopIndex <= Len(rowsIn)
    /\ companies' = PushRow(companies, rowsIn[loopIndex])
    /\ loopIndex' = loopIndex + 1
    /\ UNCHANGED <<script, rowsIn, step, byKey, written>>
    /\ UNCHANGED <<engine, data, pc, call, treemapVars, pixelVars>>

(* scrape-trustmrr.mjs line 158: the row loop ended *)
ScrapeRowsEnd ==
    /\ script = "scrape"
    /\ step = "rows"
    /\ loopIndex > Len(rowsIn)
    /\ byKey' = <<>>
    /\ step' = "dedupe"
    /\ loopIndex' = 1
    /\ UNCHANGED <<script, rowsIn, companies, written>>
    /\ UNCHANGED <<engine, data, pc, call, treemapVars, pixelVars>>

(* part_000 lines 107-118 *)
FetchStart ==
    /\ script = "fetch"
    /\ step = "start"
    /\ companies' = FetchCompanies(rowsIn)
    /\ byKey' = <<>>
    /\ step' = "dedupe"
    /\ loopIndex' = 1
    /\ UNCHANGED <<script, rowsIn, written>>
    /\ UNCHANGED <<engine, data, pc, call, treemapVars, pixelVars>>

(* scrape-trustmrr.mjs lines 160-165 and part_000 lines 119-124, one      *)
(* record                                                                 *)
Dedupe ==
    /\ script \in {"scrape", "fetch"}
    /\ step = "dedupe"
    /\ loopIndex <= Len(companies)
    /\ byKey' = DedupeOne(byKey, companies[loopIndex])
    /\ loopIndex' = loopIndex + 1
    /\ UNCHANGED <<script, rowsIn, step, companies, written>>
    /\ UNCHANGED <<engine, data, pc, call, treemapVars, pixelVars>>

(* scrape-trustmrr.mjs lines 167-185 and part_000 lines 126-128 *)
WriteCompanies ==
    /\ script \in {"scrape", "fetch"}
    /\ step = "dedupe"
    /\ loopIndex > Len(companies)
    /\ written' = MapValues(byKey)
    /\ step' = "done"
    /\ UNCHANGED <<script, rowsIn, loopIndex, companies, byKey>>
    /\ UNCHANGED <<engine, data, pc, call, treemapVars, pixelVars>>

AcquireNext ==
    \/ ScrapeRow
    \/ ScrapeRowsEnd
    \/ FetchStart
    \/ Dedupe
    \/ WriteCompanies

AcquireSpec == AcquireInit /\ [][AcquireNext]_vars

----------------------------------------------------------------------------
(* Properties of the data-acquisition scripts *)

AcquireDone == script # "none" /\ step = "done"

SameKey(a, b) == a.name = b.name /\ a.mrr = b.mrr

(* the records of a list that no earlier record of it equals in name and   *)
(* mrr, in the order of the list                                           *)
FirstOfEachKey(cs) ==
    LET keep == {k \in 1..Len(cs) :
                    \A j \in 1..(k - 1) : ~SameKey(cs[j], cs[k])}
        Nth(r) == CHOOSE k \in keep :
                      Cardinality({j \in keep : j < k}) = r - 1
    IN [r \in 1..Cardinality(keep) |-> cs[Nth(r)]]

(* the name and the mrr that a row or startup of the input stands for *)
InputName(row) == IF script = "scrape" THEN Trim(row.name) ELSE row.name
InputMrr(row) ==
    IF script = "scrape" THEN parseMoneyToNumber(row.mrrText)
    ELSE row.currentMrr

(* C14: the written list holds no two records with the same name and the   *)
(* same mrr; it is the list before deduplication reduced to the first      *)
(* record of each (name, mrr), in the same relative order; each written    *)
(* record comes from the first input row of its name and mrr; and no       *)
(* written record has a missing name or an unknown mrr.                    *)
C14_DedupByNameAndMrr ==
    AcquireDone =>
        /\ \A i, j \in 1..Len(written) :
              i # j => ~SameKey(written[i], written[j])
        /\ written = FirstOfEachKey(companies)
        /\ \A w \in {written[k] : k \in 1..Len(written)} :
              /\ w.name # <<>>
              /\ w.mrr # Null
              /\ w.link \in 1..Len(rowsIn)
              /\ InputName(rowsIn[w.link]) = w.name
              /\ InputMrr(rowsIn[w.link]) = w.mrr
              /\ \A k \in 1..(w.link - 1) :
                    ~(/\ InputName(rowsIn[k]) = w.name
                      /\ InputMrr(rowsIn[k]) = w.mrr)

(* three rows of which the first is skipped and the third repeats the name *)
(* and mrr of the second                                                   *)
C14_Witness ==
    /\ AcquireDone
    /\ Len(rowsIn) = 3
    /\ Len(companies) = 2
    /\ Len(written) = 1
    /\ written[1].link = 2

DistinctNames(cs) ==
    \A i, j \in 1..Len(cs) : i # j => cs[i].name # cs[j].name

(* C23: every entity list that the data-acquisition scripts hand to a      *)
(* layout pass has pairwise distinct names, for any input rows, two rows   *)
(* with the same name and different mrr included.                          *)
C23_NameUniqueness == AcquireDone => DistinctNames(written)

(* two input rows of one name and different mrr, both written *)
SameNameWrittenTwice ==
    /\ AcquireDone
    /\ Len(written) = 2
    /\ written[1].name = written[2].name
    /\ written[1].mrr # written[2].mrr

----------------------------------------------------------------------------
(* Properties of buildPixelGrid *)

PixelDone == engine = "pixel" /\ pc = "done"

TotalPixels == cols * rows

(* the runs of companies[] that contain cell p *)
RunsCovering(p) ==
    {k \in 1..Len(metas) :
        metas[k].start <= p /\ p < metas[k].start + metas[k].count}

(* the final cell count of entity i of data, 0 when it has no run *)
CountOf(i) ==
    SumSeq([k \in 1..Len(metas) |->
               IF metas[k].index = i - 1 THEN metas[k].count ELSE 0])

ExactCoverage ==
    /\ SumSeq([k \in 1..Len(metas) |-> metas[k].count]) = TotalPixels
    /\ \A p \in 0..(TotalPixels - 1) : Cardinality(RunsCovering(p)) = 1

(* C1 as stated: for any magnitude vector, the empty one included, the    *)
(* counts of the returned runs sum to cols*rows and every cell lies in    *)
(* exactly one run.                                                       *)
C1_CoverageAnyList == PixelDone => ExactCoverage

(* C1, amended: for any non-empty nonnegative magnitude vector, the       *)
(* counts of the returned runs sum to cols*rows and every cell index in   *)
(* [0, cols*rows) lies in exactly one run [start, start+count).           *)
C1_ExactCoverage == (PixelDone /\ Len(data) > 0) => ExactCoverage

(* a grid shared by several runs, and one whose last run was extended     *)
(* over the trailing cells                                                *)
C1_Witness ==
    /\ PixelDone
    /\ Len(metas) >= 2
    /\ cursor < TotalPixels

(* C3: for every viewport, the cols and rows computed by buildPixelGrid   *)
(* satisfy cols*rows <= MAX_PIXELS, also after the re-clamp to 10.        *)
C3_CapacityCap == (engine = "pixel" /\ pc # "start") => cols * rows <= MAX_PIXELS

(* C4: if magnitude(A) > magnitude(B) then the final cell count of A is   *)
(* at least that of B, an entity with no run counting as 0.               *)
C4_DiscreteMonotone ==
    PixelDone =>
        \A i, j \in 1..Len(data) :
            data[i].mrr > data[j].mrr => CountOf(i) >= CountOf(j)

(* two entities of different magnitude whose raw counts have the same     *)
(* floor, so that the remainder cells decide between them                 *)
C4_Witness ==
    /\ PixelDone
    /\ \E i, j \in 1..Len(data) :
          /\ data[i].mrr > data[j].mrr
          /\ (data[i].mrr * TotalPixels) \div PixelTotalMRR(data)
               = (data[j].mrr * TotalPixels) \div PixelTotalMRR(data)
          /\ CountOf(i) > CountOf(j)

(* C12: a single entity with magnitude 0 receives every cell of the grid:  *)
(* one run with start 0 and count cols*rows, every cell holding its index, *)
(* whatever the grid size.                                                 *)
C12_ZeroTotalPolicy ==
    (PixelDone /\ Len(data) = 1 /\ data[1].mrr = 0) =>
        /\ Len(metas) = 1
        /\ metas[1].index = 0
        /\ metas[1].name = data[1].name
        /\ metas[1].start = 0
        /\ metas[1].count = TotalPixels
        /\ \A p \in 0..(TotalPixels - 1) : PixelAt(pixels, p) = 0

(* the single zero-magnitude entity on a grid larger than the smallest one *)
C12_Witness ==
    /\ PixelDone
    /\ Len(data) = 1
    /\ data[1].mrr = 0
    /\ TotalPixels > 200
    /\ floorCounts = <<1>>

(* rawShare of entity i is RawNum(i) / PixelTotalMRR(data): its floor and  *)
(* the numerator of its fractional remainder                               *)
RawNum(i) == Max(0, data[i].mrr) * TotalPixels
FloorShare(i) == RawNum(i) \div PixelTotalMRR(data)
RemainderNum(i) == RawNum(i) % PixelTotalMRR(data)

FloorOrNext ==
    \A i \in 1..Len(data) :
        CountOf(i) = FloorShare(i) \/ CountOf(i) = FloorShare(i) + 1

(* the entities with one cell more than their floor are as many as the     *)
(* cells the floors leave (all of them, if the floors leave more cells     *)
(* than there are entities), and each of them has a larger remainder than,   *)
(* or the same remainder as and an earlier position than, every entity     *)
(* left at its floor                                                       *)
LargestRemaindersFirst ==
    /\ Cardinality({i \in 1..Len(data) : CountOf(i) = FloorShare(i) + 1})
         = Min(Len(data),
               TotalPixels - SumSeq([i \in 1..Len(data) |-> FloorShare(i)]))
    /\ \A i, j \in 1..Len(data) :
          (CountOf(i) = FloorShare(i) + 1 /\ CountOf(j) = FloorShare(j))
              => \/ RemainderNum(i) > RemainderNum(j)
                 \/ RemainderNum(i) = RemainderNum(j) /\ i < j

(* lines 108-122 on magnitudes [10,10,10] and 10 cells *)
ThreeTensIntoTen ==
    /\ ApportionCounts(Entities(<<10, 10, 10>>), 10) = <<4, 3, 3>>
    /\ SumSeq(ApportionCounts(Entities(<<10, 10, 10>>), 10)) = 10

(* C15: each entity's final share is floor(rawShare) or floor(rawShare)+1,  *)
(* the remainder cells going one each to the largest fractional            *)
(* remainders, ties to the earlier entity; [10,10,10] into 10 cells gives  *)
(* [4,3,3].  rawShare is the exact quotient mrr * totalPixels / totalMRR.  *)
(* Stated for the lists with a positive magnitude: an all-zero list is the *)
(* zero-total policy, where the last run takes the cells that are left.    *)
C15_LargestRemainder ==
    /\ (PixelDone /\ \E i \in 1..Len(data) : data[i].mrr > 0)
          => (FloorOrNext /\ LargestRemaindersFirst)
    /\ ThreeTensIntoTen

(* three entities of one positive magnitude, the cells not a multiple of   *)
(* three: the tie of the remainders is broken by position                  *)
C15_Witness ==
    /\ PixelDone
    /\ Len(data) = 3
    /\ data[1].mrr > 0
    /\ data[1].mrr = data[3].mrr
    /\ CountOf(1) = FloorShare(1) + 1
    /\ CountOf(3) = FloorShare(3)

(* the entity of a run, as a position of data *)
EntityOf(k) == metas[k].index + 1

RunsInDataOrder ==
    \A k \in 1..(Len(metas) - 1) :
        /\ metas[k].index < metas[k + 1].index
        /\ metas[k].mrr >= metas[k + 1].mrr

RunsBackToBack ==
    /\ Len(metas) > 0 => metas[1].start = 0
    /\ \A k \in 2..Len(metas) :
          metas[k].start = metas[k - 1].start + metas[k - 1].count

(* the entities the loop of lines 128-147 has passed *)
Passed == 1..(IF pc = "done" THEN Len(data) ELSE idx - 1)

ZeroShareOwnsNothing ==
    \A i \in Passed :
        floorCounts[i] = 0 =>
            /\ \A k \in 1..Len(metas) : EntityOf(k) # i
            /\ PixelDone =>
                  \A p \in 0..(TotalPixels - 1) : PixelAt(pixels, p) # i - 1

(* C16: the runs are emitted in the order of the (magnitude-descending)    *)
(* list; the first run starts at cell 0 and every later run starts at the  *)
(* previous run's start + count; an entity whose final share is 0 has no   *)
(* run and owns no cell.                                                   *)
C16_RunOrdering ==
    (engine = "pixel" /\ pc # "start")
        => (RunsInDataOrder /\ RunsBackToBack /\ ZeroShareOwnsNothing)

(* three entities, the last one with share 0: two runs, the second         *)
(* starting where the first ends                                           *)
C16_Witness ==
    /\ PixelDone
    /\ Len(data) = 3
    /\ floorCounts[3] = 0
    /\ Len(metas) = 2
    /\ metas[1].mrr > metas[2].mrr
    /\ metas[2].start = metas[1].count
    /\ metas[2].start > 0

(* part_002 lines 218-220: the lookup of cell p finds a run, and p lies in *)
(* that run                                                                *)
OwnerInRun(p) ==
    /\ HasMeta(metas, PixelAt(pixels, p))
    /\ companyMetaByIndex(metas, PixelAt(pixels, p)).start <= p
    /\ p < companyMetaByIndex(metas, PixelAt(pixels, p)).start
             + companyMetaByIndex(metas, PixelAt(pixels, p)).count

(* the cells the trailing fill of lines 150-156 has written *)
TrailingCells == {p \in 0..(TotalPixels - 1) : cursor <= p}

(* C17: in every result of buildPixelGrid, each cell p of the cell-owner   *)
(* array holds an index that has a run in companies[], and p lies inside   *)
(* that run, the cells of the trailing fill included: the lookup           *)
(* companyMetaByIndex[pixels[p]] is defined for every cell.                *)
C17_OwnerRunConsistency ==
    PixelDone => \A p \in 0..(TotalPixels - 1) : OwnerInRun(p)

(* the same for the results that have a run *)
OwnerRunConsistencyWithRuns ==
    (PixelDone /\ Len(metas) > 0)
        => \A p \in 0..(TotalPixels - 1) : OwnerInRun(p)

(* a result whose trailing cells were filled: all magnitudes zero *)
TrailingFilled ==
    /\ PixelDone
    /\ Len(metas) > 1
    /\ TrailingCells # {}
    /\ \A p \in TrailingCells : OwnerInRun(p)

----------------------------------------------------------------------------
(* Properties of buildTreemap *)

TreemapDone == engine = "treemap" /\ pc = "done"

NodeSet == {nodes[k] : k \in 1..Len(nodes)}

(* a node's width and height in container units *)
UnitWidth(n) == QDiv(QMul(n.width, QInt(container[1])), QInt(100))
UnitHeight(n) == QDiv(QMul(n.height, QInt(container[2])), QInt(100))
PlacedArea(n) == QMul(UnitWidth(n), UnitHeight(n))

(* C2: every placement lies inside the container, 0..100 in the emitted   *)
(* percentages, and has no negative width or height, the placements of    *)
(* the right-edge paths included.                                         *)
C2_Containment ==
    engine = "treemap" =>
        \A n \in NodeSet :
            /\ QLe(QInt(0), n.x)
            /\ QLe(QAdd(n.x, n.width), QInt(100))
            /\ QLe(QInt(0), n.y)
            /\ QLe(QAdd(n.y, n.height), QInt(100))
            /\ QLe(QInt(0), n.width)
            /\ QLe(QInt(0), n.height)

(* at a minimum-size floor: minArea, minWidth or minHeight *)
AtFloor(n) ==
    \/ n.area = QMul(QInt(container[1] * container[2]), minAreaShare)
    \/ UnitWidth(n) = QMul(QInt(container[1]), minWidthShare)
    \/ UnitHeight(n) = QMul(QInt(container[2]), minHeightShare)

(* the height is itemArea / column width, raised neither to minHeight nor *)
(* to column width / maxAspectRatio                                       *)
HeightUnraised(n) == UnitHeight(n) = QDiv(n.area, UnitWidth(n))

C6_AspectBound ==
    engine = "treemap" =>
        \A n \in NodeSet :
            QLe(QDiv(UnitWidth(n), UnitHeight(n)), maxAspectRatio)

(* one layout with a new, a clipped, a second-pass and a last-column      *)
(* placement, the second-pass one held at the bound by the correction     *)
C6_Witness ==
    /\ TreemapDone
    /\ {"new", "clip", "fallback", "last"} \subseteq {n.path : n \in NodeSet}
    /\ \E n \in NodeSet :
          /\ n.path = "fallback"
          /\ QDiv(UnitWidth(n), UnitHeight(n)) = maxAspectRatio

(* a width-matched placement held at the bound by the correction *)
C6_WitnessMatch ==
    /\ engine = "treemap"
    /\ \E n \in NodeSet :
          /\ n.path = "match"
          /\ QDiv(UnitWidth(n), UnitHeight(n)) = maxAspectRatio

Disjoint(lo1, len1, lo2, len2) ==
    QLe(QAdd(lo1, len1), lo2) \/ QLe(QAdd(lo2, len2), lo1)

(* C7: two placements with the same columnIndex have disjoint y-ranges,   *)
(* two placements with different columnIndex have disjoint x-ranges.      *)
C7_NonOverlap ==
    engine = "treemap" =>
        \A i, j \in 1..Len(nodes) :
            i # j =>
                IF nodes[i].columnIndex = nodes[j].columnIndex
                THEN Disjoint(nodes[i].y, nodes[i].height,
                              nodes[j].y, nodes[j].height)
                ELSE Disjoint(nodes[i].x, nodes[i].width,
                              nodes[j].x, nodes[j].width)

(* three columns, one of them holding two placements *)
C7_Witness ==
    /\ TreemapDone
    /\ Len(columns) >= 3
    /\ \E i, j \in 1..Len(nodes) :
          i # j /\ nodes[i].columnIndex = nodes[j].columnIndex

(* C8: buildTreemap returns one placement per input entity: the output    *)
(* is as long as the input and every input entity appears exactly once.   *)
C8_OnePlacementEach ==
    TreemapDone =>
        /\ Len(nodes) = Len(data)
        /\ \A i \in 1..Len(data) :
              Cardinality({k \in 1..Len(nodes) :
                              /\ nodes[k].name = data[i].name
                              /\ nodes[k].mrr = data[i].mrr}) = 1

(* a list with a zero-magnitude entity, placed in opened and in reused    *)
(* columns                                                                *)
C8_Witness ==
    /\ TreemapDone
    /\ Len(data) >= 3
    /\ \E i \in 1..Len(data) : data[i].mrr = 0
    /\ \E n \in NodeSet : n.path \in {"match", "fallback", "last"}
    /\ Len(columns) >= 2

(* max(proportional area, minArea) of a magnitude, from the container and  *)
(* the magnitudes of the input list                                        *)
TargetArea(mrr) ==
    QMax(QDiv(QMul(QInt(3 * mrr), QInt(container[1] * container[2])),
              QInt(4 * TotalMRR(data))),
         QDiv(QInt(container[1] * container[2]), QInt(1000)))

(* C11: a zero-magnitude entity is never dropped and never gets zero size: *)
(* it is placed with target area max(proportional area, minArea), minArea  *)
(* being 0.001*W*H, and the width*height of its rectangle is at least that *)
(* target area.                                                            *)
C11_ZeroMagnitudeFloor ==
    engine = "treemap" =>
        /\ \A n \in NodeSet :
              n.mrr = 0 =>
                  /\ n.area = TargetArea(0)
                  /\ n.area = QDiv(QInt(container[1] * container[2]),
                                   QInt(1000))
                  /\ QLe(n.area, PlacedArea(n))
                  /\ QLt(QInt(0), n.width)
                  /\ QLt(QInt(0), n.height)
        /\ pc = "done" =>
              \A i \in 1..Len(data) :
                  data[i].mrr = 0 =>
                      \E n \in NodeSet : n.name = data[i].name /\ n.mrr = 0

(* a zero-magnitude entity given before a positive one and placed after   *)
(* it                                                                      *)
C11_Witness ==
    /\ TreemapDone
    /\ \E i, j \in 1..Len(data) :
          i < j /\ data[i].mrr = 0 /\ data[j].mrr > 0
    /\ \E k \in 2..Len(nodes) : nodes[k].mrr = 0 /\ nodes[1].mrr > 0

(* a zero-magnitude placement stacked in a column that another entity      *)
(* opened                                                                  *)
C11_WitnessStacked ==
    /\ TreemapDone
    /\ \E n \in NodeSet : n.mrr = 0 /\ n.path \in {"match", "fallback"}

(* the two tests of findOrCreateColumn on an existing column, for an item *)
(* of the given area in a container of height H                           *)
HasRoom(col, itemArea, H) ==
    FitsVertically(col,
                   HeightInColumn(itemArea, col.width,
                                  QMul(QInt(H), minHeightShare)), H)

WidthMatches(col, idealWidth) ==
    QLe(QAbs(QSub(col.width, idealWidth)), QMul(idealWidth, toleranceShare))

IdealWidthOf(itemArea, W, H) ==
    IdealWidth(itemArea, QMul(QInt(W), minWidthShare),
               QMul(QInt(H), minHeightShare))

PassOne(col, itemArea, W, H) ==
    WidthMatches(col, IdealWidthOf(itemArea, W, H)) /\ HasRoom(col, itemArea, H)

(* the choice of column position chosen among the columns cs, the list cs2 *)
(* being the columns after the call, is the first fit                      *)
FirstFit(cs, cs2, chosen, itemArea, W, H) ==
    IF \E k \in 1..Len(cs) : PassOne(cs[k], itemArea, W, H)
    THEN /\ Len(cs2) = Len(cs)
         /\ PassOne(cs[chosen], itemArea, W, H)
         /\ \A k \in 1..(chosen - 1) : ~PassOne(cs[k], itemArea, W, H)
    ELSE IF \E k \in 1..Len(cs) : HasRoom(cs[k], itemArea, H)
    THEN /\ Len(cs2) = Len(cs)
         /\ HasRoom(cs[chosen], itemArea, H)
         /\ \A k \in 1..(chosen - 1) : ~HasRoom(cs[k], itemArea, H)
    ELSE \/ Len(cs2) = Len(cs) + 1 /\ chosen = Len(cs2)
         \/ Len(cs2) = Len(cs) /\ chosen = Len(cs)

(* C18: for each entity, findOrCreateColumn picks the first column in      *)
(* creation order whose width is within 20% of the ideal width and that    *)
(* has vertical room; only if there is none, the first column in creation  *)
(* order with vertical room; only if none has room is a new column         *)
(* considered.  A later column is never chosen when an earlier one         *)
(* satisfies the same pass.                                                *)
C18_FirstFitColumn ==
    [][(engine = "treemap" /\ pc = "place" /\ Len(nodes') = Len(nodes) + 1)
         => FirstFit(columns, columns', nodes'[Len(nodes')].columnIndex + 1,
                     items[Len(nodes) + 1].area, container[1],
                     container[2])]_vars

(* the last entity placed went by width match into a column that has a     *)
(* later column which also passed the first test for it                    *)
C18_Witness ==
    /\ engine = "treemap"
    /\ Len(nodes) > 0
    /\ nodes[Len(nodes)].path = "match"
    /\ \E l \in (nodes[Len(nodes)].columnIndex + 2)..Len(columns) :
          PassOne(columns[l], items[Len(nodes)].area, container[1],
                  container[2])

(* the same for the second pass: a later column also had room *)
C18_WitnessFallback ==
    /\ engine = "treemap"
    /\ Len(nodes) > 0
    /\ nodes[Len(nodes)].path = "fallback"
    /\ \E l \in (nodes[Len(nodes)].columnIndex + 2)..Len(columns) :
          HasRoom(columns[l], items[Len(nodes)].area, container[2])

(* one step of a call on the column list: cs before, cs2 after *)
ColumnsKept(cs, cs2) ==
    /\ Len(cs) <= Len(cs2)
    /\ Len(cs2) <= Len(cs) + 1
    /\ \A k \in 1..Len(cs) :
          /\ cs2[k].x = cs[k].x
          /\ cs2[k].width = cs[k].width
          /\ QLe(cs[k].currentY, cs2[k].currentY)

ColumnsNumbered(cs) == \A k \in 1..Len(cs) : cs[k].index = k - 1

(* the column opened by the step, if any: to the right of the one before  *)
(* it and inside the container                                            *)
OpenedInside(cs, cs2, W) ==
    Len(cs2) > Len(cs) =>
        /\ cs2[Len(cs2)].x =
              (IF Len(cs) = 0 THEN QInt(0)
               ELSE QAdd(QAdd(cs[Len(cs)].x, cs[Len(cs)].width), Norm(1, 5)))
        /\ QLe(QAdd(cs2[Len(cs2)].x, cs2[Len(cs2)].width), QInt(W))

(* C19: within a call, columns are only appended, never removed or         *)
(* reordered; a column's x and width never change after creation and its   *)
(* currentY never decreases; column k has index k; each new column's x is  *)
(* the previous column's x + width + 0.2, and its width is clipped so that *)
(* x + width <= W.                                                         *)
C19_ColumnStructure ==
    [][(engine = "treemap" /\ pc = "place")
         => /\ ColumnsKept(columns, columns')
            /\ ColumnsNumbered(columns')
            /\ OpenedInside(columns, columns', container[1])]_vars

(* three columns, the last one clipped to the right edge, and a column     *)
(* whose cursor has moved down twice                                       *)
C19_Witness ==
    /\ engine = "treemap"
    /\ Len(columns) >= 3
    /\ \E n \in NodeSet : n.path = "clip" /\ n.columnIndex = Len(columns) - 1
    /\ QAdd(columns[Len(columns)].x, columns[Len(columns)].width)
         = QInt(container[1])
    /\ \E m, n \in NodeSet : m # n /\ m.columnIndex = n.columnIndex

(* the width left to the right of the last column of cs (lines 219-226) *)
RemainingWidth(cs, W) == QSub(QInt(W), NewX(cs))

(* no column of cs has room for the item, and less than minWidth is left  *)
(* to the right of the last one                                           *)
NoRoomNoWidth(cs, itemArea, W, H) ==
    /\ Len(cs) > 0
    /\ \A k \in 1..Len(cs) : ~HasRoom(cs[k], itemArea, H)
    /\ QLt(RemainingWidth(cs, W), QMul(QInt(W), minWidthShare))

(* C20: when no existing column has vertical room and the width remaining  *)
(* to the right of the last column is less than minWidth, the entity is    *)
(* placed in the last existing column and no new column is created (every  *)
(* placement step ends with a node, none with an error).                   *)
C20_RightEdgeFallback ==
    [][(/\ engine = "treemap"
        /\ pc = "place"
        /\ Len(nodes') = Len(nodes) + 1
        /\ NoRoomNoWidth(columns, items[Len(nodes) + 1].area, container[1],
                         container[2]))
         => /\ Len(columns') = Len(columns)
            /\ nodes'[Len(nodes')].columnIndex = Len(columns) - 1]_vars

(* an entity was placed in the last column by the right-edge fallback *)
C20_Witness ==
    /\ engine = "treemap"
    /\ Len(nodes) > 0
    /\ nodes[Len(nodes)].path = "last"
    /\ nodes[Len(nodes)].columnIndex = Len(columns) - 1

(* the position in the input list of the entity of a node *)
PositionOf(n) == CHOOSE i \in 1..Len(data) : data[i].name = n.name

(* the nodes emitted so far are in descending magnitude, equal magnitudes  *)
(* in input order, and they are the first entities of that order           *)
EmittedInOrder ==
    /\ \A k, l \in 1..Len(nodes) :
          k < l => \/ nodes[k].mrr > nodes[l].mrr
                   \/ /\ nodes[k].mrr = nodes[l].mrr
                      /\ PositionOf(nodes[k]) < PositionOf(nodes[l])
    /\ \A k \in 1..Len(nodes) : \A i \in 1..Len(data) :
          (\A l \in 1..Len(nodes) : nodes[l].name # data[i].name)
              => \/ nodes[k].mrr > data[i].mrr
                 \/ /\ nodes[k].mrr = data[i].mrr
                    /\ PositionOf(nodes[k]) < i

(* lines 107-122 on [{A,100},{B,50},{C,50}] (names 1, 2, 3) in a 100 x 100 *)
(* container: the order A, B, C and the target areas                       *)
ScenarioOne ==
    LET it == BuildItems(Entities(<<100, 50, 50>>), 100, 100)
    IN /\ <<it[1].name, it[2].name, it[3].name>> = <<1, 2, 3>>
       /\ it[1].area = QMul(QInt(2), it[2].area)
       /\ it[2].area = it[3].area

(* C21: buildTreemap processes and emits entities in descending magnitude, *)
(* entities of equal magnitude keeping their input order; for              *)
(* [{A,100},{B,50},{C,50}] A is placed before B and B before C, A's target *)
(* area is twice B's and B's equals C's.                                   *)
C21_PlacementOrder ==
    /\ (engine = "treemap" /\ pc # "start") => EmittedInOrder
    /\ ScenarioOne

(* buildTreemap returned for a list that starts with two equal magnitudes  *)
(* followed by a larger one: the larger is emitted first, then the two in  *)
(* input order                                                             *)
C21_Witness ==
    /\ TreemapDone
    /\ Len(data) >= 3
    /\ data[1].mrr = data[2].mrr
    /\ data[1].mrr > 0
    /\ data[3].mrr > data[1].mrr
    /\ nodes[1].name = data[3].name
    /\ nodes[2].name = data[1].name
    /\ nodes[3].name = data[2].name

MinWidthKept(n) == QLe(QMul(QInt(container[1]), minWidthShare), UnitWidth(n))

MinHeightKept(n) ==
    QLe(QMul(QInt(container[2]), minHeightShare), UnitHeight(n))

(* C22: every placement produced by buildTreemap has width >= minWidth     *)
(* (0.03 * W) and height >= minHeight (0.025 * H), also for entities at    *)
(* the minArea floor and after the aspect-ratio correction of a new        *)
(* column's width.                                                         *)
C22_MinimumDimensions ==
    engine = "treemap" =>
        \A n \in NodeSet : MinWidthKept(n) /\ MinHeightKept(n)

(* the height half of it *)
MinimumHeights == engine = "treemap" => \A n \in NodeSet : MinHeightKept(n)

(* a placement at the minArea floor in a column opened for it, narrower    *)
(* than minWidth and not lower than minHeight                              *)
NarrowColumnOpened ==
    /\ engine = "treemap"
    /\ \E n \in NodeSet :
          /\ n.path = "new"
          /\ n.area = QMul(QInt(container[1] * container[2]), minAreaShare)
          /\ ~MinWidthKept(n)
          /\ MinHeightKept(n)

----------------------------------------------------------------------------
(* Properties of both engines *)

(* C13: the layout engines never mutate their input entities: no step of  *)
(* buildTreemap, which sorts a copy, and no step of buildPixelGrid changes *)
(* the order or the fields of the entity list.                             *)
C13_InputUnchanged == [][data' = data]_vars

(* buildTreemap returned for a list that was not in descending order, its  *)
(* placements in another order than the list                               *)
C13_Witness ==
    /\ TreemapDone
    /\ Len(data) >= 3
    /\ \E i \in 1..(Len(data) - 1) : data[i].mrr < data[i + 1].mrr
    /\ nodes[1].name # data[1].name
    /\ \A k \in 1..(Len(nodes) - 1) : nodes[k].mrr >= nodes[k + 1].mrr

(* C9: two calls with the same entity list and dimensions return the same *)
(* result: the same placements from buildTreemap, the same cols, rows,    *)
(* cell-owner array and runs from buildPixelGrid; the second call sees    *)
(* nothing of the state the first one left.                               *)
C9_Determinism ==
    (call = 2 /\ pc = "done") =>
        /\ engine = "treemap" => nodes = prevNodes
        /\ engine = "pixel" =>
              /\ cols = prevGrid.cols
              /\ rows = prevGrid.rows
              /\ metas = prevGrid.metas
              /\ \A p \in 0..(TotalPixels - 1) :
                    PixelAt(pixels, p) = PixelAt(prevGrid.pixels, p)

(* a second call of buildTreemap that ended, over columns that the first  *)
(* call had opened and reused                                             *)
C9_Witness ==
    /\ engine = "treemap"
    /\ call = 2
    /\ pc = "done"
    /\ Len(columns) >= 2
    /\ Len(nodes) > Len(columns)

(* a second call of buildPixelGrid that ended with several runs *)
C9_WitnessPixel ==
    /\ PixelDone
    /\ call = 2
    /\ Len(metas) >= 2

(* C10: given an empty entity list both engines return empty output:      *)
(* buildTreemap no placements, buildPixelGrid no runs and no cell         *)
(* attributed to an entity (the array holds its zero fill only).          *)
C10_EmptyInput ==
    (Len(data) = 0 /\ pc = "done") =>
        /\ engine = "treemap" => nodes = <<>>
        /\ engine = "pixel" =>
              /\ metas = <<>>
              /\ pixels = NewPixels(TotalPixels)
              /\ \A p \in 0..(TotalPixels - 1) : RunsCovering(p) = {}

(* buildPixelGrid returned for an empty list and a grid of cells *)
C10_Witness ==
    /\ PixelDone
    /\ Len(data) = 0
    /\ TotalPixels > 0

(* buildTreemap returned for an empty list *)
C10_WitnessTreemap ==
    /\ TreemapDone
    /\ Len(data) = 0

====
